---- MODULE Spec2Model ----
(***************************************************************************)
(* A model of bee-tangle's Tangle (src/bee-tangle/src/tangle.rs): the      *)
(* index of vertices behind an async read/write lock, the LRU eviction     *)
(* queue behind an async mutex, the atomic max_len, the storage hooks, and *)
(* the facade operations run by concurrent tasks.  A task's step is one    *)
(* run of the code between two suspension points (a lock acquisition that  *)
(* can wait, or a hook call).                                              *)
(***************************************************************************)
EXTENDS Integers, Sequences, FiniteSets, TLC

-----------------------------------------------------------------------------
(* Program constants *)

DEFAULT_CACHE_LEN == 100000

\* CACHE_THRESHOLD_FACTOR = 0.1, as a percentage
CACHE_THRESHOLD_PERCENT == 10

-----------------------------------------------------------------------------
(* Bounds of the model *)

\* resize() is called with a length in 0..MaxLen
MaxLen == 2

\* number of resize() calls in a behaviour
MaxResizes == 1

\* operations the main task starts when the tasks run concurrently
MaxMainOps == 2

\* operations the side task starts when the tasks run concurrently
MaxSideOps == 1

\* operations of the single task of the sequential specifications
MaxSeqOps == 3

\* operations each task starts in the lock-protocol specification
MaxLockOps == 2

\* the eviction specification: max_len is in 0..MaxEvictLen and the index
\* holds 1..MaxEvictIds vertices when the pass starts
MaxEvictLen == 10

MaxEvictIds == 12

\* with_capacity() is called with a capacity in 0..MaxCap
MaxCap == 2

\* message bodies and metadata values are 1..MaxVariant; insert(id, m, meta)
\* is called with a message of body b and the metadata b
MaxVariant == 2

-----------------------------------------------------------------------------
(* Values *)

Ids == {1, 2, 3}

Main == "main"

Side == "side"

Tasks == {Main, Side}

\* the holder of a lock nobody holds
NoTask == "none"

Variants == 1..MaxVariant

\* The parents a message with the given identifier names (a DAG).
ParentsOf(id) == CASE id = 1 -> <<>> [] id = 2 -> <<1>> [] OTHER -> <<1, 2>>

\* Message: opaque but for its parents; body tells two messages apart.
Message(id, b) == [parents |-> ParentsOf(id), body |-> b]

\* Option<T>: None is <<>>, Some(x) is <<x>>.
None == <<>>

Some(x) == <<x>>

Range(s) == {s[i] : i \in 1..Len(s)}

EmptyMap == [x \in {} |-> 0]

\* HashMap::insert / HashMap::remove
MapPut(f, k, v) == [x \in (DOMAIN f) \cup {k} |-> IF x = k THEN v ELSE f[x]]

MapRemove(f, k) == [x \in (DOMAIN f) \ {k} |-> f[x]]

-----------------------------------------------------------------------------
(* Vertex (spec section 4.1) *)

VertexEmpty ==
  [msg |-> None, meta |-> None, children |-> <<>>, exhaustive |-> FALSE, pins |-> 0]

insert_message_and_metadata(v, m, md) ==
  [v EXCEPT !.msg = Some(m), !.meta = Some(md)]

add_child(v, c) ==
  IF c \in Range(v.children) THEN v ELSE [v EXCEPT !.children = Append(@, c)]

set_exhaustive(v) == [v EXCEPT !.exhaustive = TRUE]

prevent_eviction(v) == [v EXCEPT !.pins = @ + 1]

allow_eviction(v) == [v EXCEPT !.pins = @ - 1]

can_evict(v) == v.pins = 0

\* vertices.entry(id).or_insert_with(Vertex::empty)
EntryOrEmpty(vs, id) == IF id \in DOMAIN vs THEN vs ELSE MapPut(vs, id, VertexEmpty)

-----------------------------------------------------------------------------
(* LruCache<MessageId, ()>: least recently used first; cap = 0 is unbounded *)

LruPut(q, cap, k) ==
  IF k \in Range(q) THEN Append(SelectSeq(q, LAMBDA x : x # k), k)
  ELSE IF cap > 0 /\ Len(q) >= cap THEN Append(Tail(q), k)
  ELSE Append(q, k)

\* a variant without the factor
ThresholdWholeLen(ml) == ml

\* ((1.0 - CACHE_THRESHOLD_FACTOR) * max_len as f64) as usize
Threshold(ml) == ((100 - CACHE_THRESHOLD_PERCENT) * ml) \div 100

-----------------------------------------------------------------------------
(* State *)

VARIABLES
  vertices,     \* Tangle.vertices: MessageId -> Vertex, resident ids as DOMAIN
  cache_queue,  \* Tangle.cache_queue: the LRU order, least recent first
  queue_cap,    \* capacity of cache_queue; 0 when unbounded (Tangle::new)
  max_len,      \* Tangle.max_len
  vlock,        \* task holding vertices' write lock across steps, or NoTask
  qlock,        \* task holding cache_queue's mutex across steps, or NoTask
  store,        \* backing store behind the hooks: MessageId -> (Message, T)
  approvers,    \* backing store behind the hooks: <<parent, child>> edges
  tk,           \* per task: the running operation, its position and locals
  nops,         \* per task: operations started
  nres,         \* resize() calls made
  mode,         \* "conc": two tasks interleave; "seq": one task; "lock": the
                \* tasks run the operations' lock protocols; "evict": one
                \* eviction pass
  failed,       \* history: some hook call has returned an error
  expected,     \* history: id -> (Message, T) handed to the store by returned calls
  nIns,         \* history: id -> hooks.insert calls made by insert()
  nAppr,        \* history: <<parent, child>> -> hooks.insert_approver calls
  last,         \* history ("seq"): the insert that returned last, if an insert did
  offpass       \* history: children_inner or resize ran since a pass last loaded max_len

vars == <<vertices, cache_queue, queue_cap, max_len, vlock, qlock, store,
          approvers, tk, nops, nres, mode, failed, expected, nIns, nAppr, last,
          offpass>>

cacheVars == <<vertices, cache_queue, vlock, qlock>>

storeVars == <<store, approvers, failed>>

histVars == <<expected, nIns, nAppr, offpass>>

confVars == <<queue_cap, max_len, nres, mode>>

IdleTask ==
  [pc |-> "idle", op |-> "none", id |-> 0, msg |-> None, meta |-> 0,
   exists |-> FALSE, fetched |-> None, phase |-> "none", ml |-> 0,
   iter |-> FALSE, snap |-> EmptyMap, k |-> 0, iiret |-> None,
   toins |-> <<>>, err |-> FALSE, held |-> 0, pulled |-> FALSE,
   rmsg |-> None, rmeta |-> None, rbool |-> FALSE, rlist |-> <<>>,
   prev |-> None, prog |-> <<>>, rd |-> FALSE]

NoEdgeCount == [e \in Ids \X Ids |-> 0]

\* Tangle::new but for the capacity of the queue
InitState ==
  /\ vertices = EmptyMap
  /\ cache_queue = <<>>
  /\ max_len = DEFAULT_CACHE_LEN
  /\ vlock = NoTask
  /\ qlock = NoTask
  /\ store = EmptyMap
  /\ approvers = {}
  /\ tk = [t \in Tasks |-> IdleTask]
  /\ nops = [t \in Tasks |-> 0]
  /\ nres = 0
  /\ failed = FALSE
  /\ expected = EmptyMap
  /\ nIns = [i \in Ids |-> 0]
  /\ nAppr = NoEdgeCount
  /\ last = None
  /\ offpass = FALSE

\* Tangle::new: LruCache::unbounded_with_hasher
InitCommon == InitState /\ queue_cap = 0

Init == InitCommon /\ mode = "conc"

SeqInit == InitCommon /\ mode = "seq"

\* Tangle::new(hooks).with_capacity(cap): LruCache::with_hasher(cap + 1, ..)
CapInit ==
  /\ InitState
  /\ \E cap \in 0..MaxCap : queue_cap = cap + 1
  /\ mode = "seq"

Budget(t) ==
  IF mode = "conc" THEN (IF t = Main THEN MaxMainOps ELSE MaxSideOps)
  ELSE (IF t = Main THEN MaxSeqOps ELSE 0)

Set(t, r) == tk' = [tk EXCEPT ![t] = r]

\* The bodies and metadata a task passes: any variant when one task runs
\* alone; one variant per task when two interleave, so their data differ.
VariantsOf(t) ==
  IF mode = "conc" THEN (IF t = Main THEN {1} ELSE {MaxVariant}) ELSE Variants

\* A hook call returns Ok (TRUE) or Err (FALSE).  Errors are explored in the
\* sequential specifications; the interleaved tasks run over a store that
\* persists faithfully.
HookOutcomes == IF mode = "conc" THEN {TRUE} ELSE BOOLEAN

AllIdle == \A t \in Tasks : tk[t].pc = "idle"

-----------------------------------------------------------------------------
(* Hooks over a backing store.  A call that returns Ok reads or writes the  *)
(* store faithfully; a call may instead return Err and do nothing.         *)

RECURSIVE SortedSeq(_)
SortedSeq(S) ==
  IF S = {} THEN <<>>
  ELSE LET m == CHOOSE x \in S : \A y \in S : x <= y
       IN <<m>> \o SortedSeq(S \ {m})

\* Hooks::fetch_approvers returning Ok: None and Some([]) add the same.
FetchApprovers(id) == SortedSeq({c \in Ids : <<id, c>> \in approvers})

-----------------------------------------------------------------------------
(* insert_inner, lines 142-172: the part under the vertices write lock *)

\* a variant that creates the parents' entries and records no child
RECURSIVE AddParentsNoChild(_, _, _, _, _)
AddParentsNoChild(vs, q, parents, i, child) ==
  IF i > Len(parents) THEN [vs |-> vs, q |-> q]
  ELSE LET p == parents[i]
       IN AddParentsNoChild(EntryOrEmpty(vs, p), LruPut(q, queue_cap, p), parents,
                            i + 1, child)

RECURSIVE AddParents(_, _, _, _, _)
AddParents(vs, q, parents, i, child) ==
  IF i > Len(parents) THEN [vs |-> vs, q |-> q]
  ELSE LET p == parents[i]
           vs1 == EntryOrEmpty(vs, p)
           vs2 == [vs1 EXCEPT ![p] = add_child(@, child)]
       IN AddParents(vs2, LruPut(q, queue_cap, p), parents, i + 1, child)

\* a variant that takes a vertex already in the index (a parent's entry
\* without a message) for a vertex that has its message
InsertInnerSkipsEntry(vs, q, id, m, md, prevent) ==
  LET vs1 == EntryOrEmpty(vs, id)
      v1 == IF prevent THEN prevent_eviction(vs1[id]) ELSE vs1[id]
  IN IF id \in DOMAIN vs
     THEN [vs |-> [vs1 EXCEPT ![id] = v1], q |-> q, ret |-> None]
     ELSE LET v2 == insert_message_and_metadata(v1, m, md)
              x == AddParents([vs1 EXCEPT ![id] = v2], q, m.parents, 1, id)
          IN [vs |-> x.vs, q |-> LruPut(x.q, queue_cap, id), ret |-> Some(m)]

\* a variant that installs the message over one already installed
InsertInnerOverwrite(vs, q, id, m, md, prevent) ==
  LET vs1 == EntryOrEmpty(vs, id)
      v1 == IF prevent THEN prevent_eviction(vs1[id]) ELSE vs1[id]
      v2 == insert_message_and_metadata(v1, m, md)
      x == AddParents([vs1 EXCEPT ![id] = v2], q, m.parents, 1, id)
  IN [vs |-> x.vs, q |-> LruPut(x.q, queue_cap, id),
      ret |-> IF v1.msg # None THEN None ELSE Some(m)]

InsertInner(vs, q, id, m, md, prevent) ==
  LET vs1 == EntryOrEmpty(vs, id)
      v1 == IF prevent THEN prevent_eviction(vs1[id]) ELSE vs1[id]
  IN IF v1.msg # None
     THEN [vs |-> [vs1 EXCEPT ![id] = v1], q |-> q, ret |-> None]
     ELSE LET v2 == insert_message_and_metadata(v1, m, md)
              x == AddParents([vs1 EXCEPT ![id] = v2], q, m.parents, 1, id)
          IN [vs |-> x.vs, q |-> LruPut(x.q, queue_cap, id), ret |-> Some(m)]

-----------------------------------------------------------------------------
(* Starting an operation *)

StartOp(t, r) ==
  /\ tk[t].pc = "idle"
  /\ nops[t] < Budget(t)
  /\ Set(t, [r EXCEPT !.prev = IF /\ r.op \in {"insert", "get", "contains"}
                                   /\ last # None /\ last[1].id = r.id
                                THEN last ELSE None])
  /\ nops' = [nops EXCEPT ![t] = @ + 1]
  /\ last' = None
  /\ UNCHANGED <<cacheVars, storeVars, confVars, expected, nIns, nAppr>>

StartInsert(t) ==
  \E id \in Ids, b \in VariantsOf(t) :
    /\ StartOp(t, [IdleTask EXCEPT !.pc = "pm_check", !.op = "insert", !.id = id,
                                   !.msg = Some(Message(id, b)), !.meta = b])
    /\ UNCHANGED offpass

\* get and get_metadata: get_with with the closure reading message or metadata
StartGet(t) ==
  \E id \in Ids :
    /\ StartOp(t, [IdleTask EXCEPT !.pc = "pm_check", !.op = "get", !.id = id])
    /\ UNCHANGED offpass

StartGetVertex(t) ==
  \E id \in Ids :
    /\ StartOp(t, [IdleTask EXCEPT !.pc = "pm_check", !.op = "get_vertex", !.id = id])
    /\ UNCHANGED offpass

StartGetMetadataMaybe(t) ==
  \E id \in Ids :
    /\ StartOp(t, [IdleTask EXCEPT !.pc = "gmm", !.op = "get_metadata_maybe", !.id = id])
    /\ UNCHANGED offpass

StartContains(t) ==
  \E id \in Ids :
    /\ StartOp(t, [IdleTask EXCEPT !.pc = "ct", !.op = "contains", !.id = id])
    /\ UNCHANGED offpass

\* set_metadata(id, md): update_metadata with the closure |m| *m = md
StartUpdateMetadata(t) ==
  \E id \in Ids, md \in VariantsOf(t) :
    /\ StartOp(t, [IdleTask EXCEPT !.pc = "pm_check", !.op = "update_metadata",
                                   !.id = id, !.meta = md])
    /\ UNCHANGED offpass

\* get_children and num_children: children_inner, then the list or its length
StartGetChildren(t) ==
  \E id \in Ids :
    /\ StartOp(t, [IdleTask EXCEPT !.pc = "ch_read", !.op = "get_children", !.id = id])
    /\ UNCHANGED offpass

Resize ==
  \E n \in 0..MaxLen :
    /\ nres < MaxResizes
    /\ mode = "seq" => AllIdle
    /\ max_len' = n
    /\ nres' = nres + 1
    /\ offpass' = TRUE
    /\ last' = None
    /\ UNCHANGED <<cacheVars, storeVars, queue_cap, mode, tk, nops, expected,
                   nIns, nAppr>>

-----------------------------------------------------------------------------
(* pull_message, lines 411-441 *)

HasMessage(id) == id \in DOMAIN vertices /\ vertices[id].msg # None

\* pull_message returns ex to the operation that called it
PullReturn(r, ex) ==
  IF r.op = "contains"
  THEN [r EXCEPT !.pc = "ret", !.rbool = ex, !.phase = "none", !.ml = 0]
  ELSE [r EXCEPT !.exists = ex, !.phase = "none", !.ml = 0,
                 !.pc = CASE r.op = "insert" -> "ins_ii"
                          [] r.op = "get" -> "gw"
                          [] r.op = "get_vertex" -> "gv"
                          [] OTHER -> "um"]

\* lines 412-423: contains_now
PmCheck(t) ==
  LET r == tk[t]
      pin == r.op # "contains"
      found == HasMessage(r.id)
  IN /\ r.pc = "pm_check"
     /\ vlock = NoTask
     /\ vertices' = IF pin /\ found
                    THEN [vertices EXCEPT ![r.id] = prevent_eviction(@)]
                    ELSE vertices
     /\ Set(t, [r EXCEPT !.pc = IF found THEN "pm_touch" ELSE "pm_get",
                         !.held = IF pin /\ found THEN 1 ELSE 0])
     /\ UNCHANGED <<cache_queue, vlock, qlock, storeVars, confVars, histVars,
                    nops, last>>

\* a variant that returns true without the put
PmTouchNoPut(t) ==
  LET r == tk[t]
  IN /\ r.pc = "pm_touch"
     /\ Set(t, PullReturn(r, TRUE))
     /\ UNCHANGED <<cacheVars, storeVars, confVars, histVars, nops, last>>

\* lines 426-430
PmTouch(t) ==
  LET r == tk[t]
  IN /\ r.pc = "pm_touch"
     /\ qlock = NoTask
     /\ cache_queue' = LruPut(cache_queue, queue_cap, r.id)
     /\ Set(t, PullReturn(r, TRUE))
     /\ UNCHANGED <<vertices, vlock, qlock, storeVars, confVars, histVars,
                    nops, last>>

\* line 431: hooks.get
PmGet(t) ==
  LET r == tk[t]
  IN /\ r.pc = "pm_get"
     /\ \E ok \in HookOutcomes :
          /\ failed' = (failed \/ ~ok)
          /\ IF ok /\ r.id \in DOMAIN store
             THEN Set(t, [r EXCEPT !.pc = "pm_put", !.fetched = Some(store[r.id])])
             ELSE Set(t, PullReturn(r, FALSE))
     /\ UNCHANGED <<cacheVars, store, approvers, confVars, histVars, nops, last>>

\* line 433
PmPut(t) ==
  LET r == tk[t]
  IN /\ r.pc = "pm_put"
     /\ qlock = NoTask
     /\ cache_queue' = LruPut(cache_queue, queue_cap, r.id)
     /\ Set(t, [r EXCEPT !.pc = "pm_ii"])
     /\ UNCHANGED <<vertices, vlock, qlock, storeVars, confVars, histVars,
                    nops, last>>

\* a variant that returns without insert_inner
PmInsertInnerSkipped(t) ==
  LET r == tk[t]
  IN /\ r.pc = "pm_ii"
     /\ Set(t, PullReturn([r EXCEPT !.fetched = None, !.pulled = TRUE], TRUE))
     /\ UNCHANGED <<cacheVars, storeVars, confVars, histVars, nops, last>>

\* line 435: insert_inner(*message_id, msg, metadata, prevent_eviction)
PmInsertInner(t) ==
  LET r == tk[t]
      pin == r.op # "contains"
      x == InsertInner(vertices, cache_queue, r.id, r.fetched[1].msg,
                       r.fetched[1].meta, pin)
  IN /\ r.pc = "pm_ii"
     /\ vlock = NoTask /\ qlock = NoTask
     /\ vertices' = x.vs
     /\ cache_queue' = x.q
     /\ Set(t, [r EXCEPT !.pc = "ev_load", !.phase = "pull", !.fetched = None,
                         !.pulled = TRUE,
                         !.held = IF pin THEN @ + 1 ELSE @])
     /\ UNCHANGED <<vlock, qlock, storeVars, confVars, histVars, nops, last>>

-----------------------------------------------------------------------------
(* perform_eviction, lines 443-465 *)

\* perform_eviction returns to insert_inner, which returns to its caller
AfterEvict(r) ==
  LET r1 == [r EXCEPT !.iter = FALSE, !.snap = EmptyMap]
  IN IF r.phase = "pull" THEN PullReturn(r1, TRUE)
     ELSE [r1 EXCEPT !.pc = "ins_allow", !.phase = "none", !.ml = 0]

\* the vertices that cannot be evicted
Pinned(vs) == [i \in {j \in DOMAIN vs : ~can_evict(vs[j])} |-> vs[i]]

\* line 444
EvLoad(t) ==
  LET r == tk[t]
  IN /\ r.pc = "ev_load"
     /\ Set(t, [r EXCEPT !.pc = "ev_len", !.ml = max_len])
     /\ offpass' = FALSE
     /\ UNCHANGED <<cacheVars, storeVars, confVars, expected, nIns, nAppr, nops, last>>

\* a variant that compares with max_len + 1
EvLenOffByOne(t) ==
  LET r == tk[t]
  IN /\ r.pc = "ev_len"
     /\ vlock = NoTask
     /\ IF Cardinality(DOMAIN vertices) > r.ml + 1
        THEN Set(t, [r EXCEPT !.pc = "ev_loop"])
        ELSE Set(t, AfterEvict(r))
     /\ UNCHANGED <<cacheVars, storeVars, confVars, histVars, nops, last>>

\* lines 445-446
EvLen(t) ==
  LET r == tk[t]
  IN /\ r.pc = "ev_len"
     /\ vlock = NoTask
     /\ IF Cardinality(DOMAIN vertices) > r.ml
        THEN Set(t, [r EXCEPT !.pc = "ev_loop"])
        ELSE Set(t, AfterEvict(r))
     /\ UNCHANGED <<cacheVars, storeVars, confVars, histVars, nops, last>>

\* a variant that evicts the victim whether or not it is pinned
EvictOneUnchecked(vs, q) ==
  LET victim == Head(q)
      q1 == Tail(q)
  IN IF victim \in DOMAIN vs
     THEN [vs |-> MapRemove(vs, victim), q |-> q1]
     ELSE [vs |-> vs, q |-> q1]

\* a variant that puts a pinned victim back with its children list marked
\* not exhaustive
EvictOneReinsertsPartial(vs, q) ==
  LET victim == Head(q)
      q1 == Tail(q)
  IN IF victim \in DOMAIN vs
     THEN IF ~can_evict(vs[victim])
          THEN [vs |-> [vs EXCEPT ![victim].exhaustive = FALSE],
                q |-> LruPut(q1, queue_cap, victim)]
          ELSE [vs |-> MapRemove(vs, victim), q |-> q1]
     ELSE [vs |-> vs, q |-> q1]

\* lines 450-459: one victim
EvictOne(vs, q) ==
  LET victim == Head(q)
      q1 == Tail(q)
  IN IF victim \in DOMAIN vs
     THEN IF ~can_evict(vs[victim])
          THEN [vs |-> vs, q |-> LruPut(q1, queue_cap, victim)]
          ELSE [vs |-> MapRemove(vs, victim), q |-> q1]
     ELSE [vs |-> vs, q |-> q1]

\* lines 447-463: the locks are taken on the first step; then one turn of
\* the while loop per step, the locks kept until the loop is left
EvLoop(t) ==
  LET r == tk[t]
      snap == IF vlock = t THEN r.snap ELSE Pinned(vertices)
  IN /\ r.pc = "ev_loop"
     /\ (vlock = NoTask /\ qlock = NoTask) \/ (vlock = t /\ qlock = t)
     /\ IF Cardinality(DOMAIN vertices) > Threshold(r.ml) /\ cache_queue # <<>>
        THEN LET x == EvictOne(vertices, cache_queue)
             IN /\ vertices' = x.vs
                /\ cache_queue' = x.q
                /\ vlock' = t
                /\ qlock' = t
                /\ Set(t, [r EXCEPT !.iter = ~@, !.snap = snap])
        ELSE /\ vlock' = NoTask
             /\ qlock' = NoTask
             /\ Set(t, AfterEvict(r))
             /\ UNCHANGED <<vertices, cache_queue>>
     /\ UNCHANGED <<storeVars, confVars, histVars, nops, last>>

-----------------------------------------------------------------------------
(* insert, lines 182-213 *)

\* a variant that never asks insert_inner for the pin
InsInsertInnerNoPin(t) ==
  LET r == tk[t]
      x == InsertInner(vertices, cache_queue, r.id, r.msg[1], r.meta, FALSE)
  IN /\ r.pc = "ins_ii"
     /\ vlock = NoTask /\ qlock = NoTask
     /\ vertices' = x.vs
     /\ cache_queue' = x.q
     /\ Set(t, [r EXCEPT !.pc = "ev_load", !.phase = "main", !.iiret = x.ret])
     /\ UNCHANGED <<vlock, qlock, storeVars, confVars, histVars, nops, last>>

\* lines 185-187: insert_inner(message_id, message, metadata, !exists)
InsInsertInner(t) ==
  LET r == tk[t]
      x == InsertInner(vertices, cache_queue, r.id, r.msg[1], r.meta, ~r.exists)
  IN /\ r.pc = "ins_ii"
     /\ vlock = NoTask /\ qlock = NoTask
     /\ vertices' = x.vs
     /\ cache_queue' = x.q
     /\ Set(t, [r EXCEPT !.pc = "ev_load", !.phase = "main", !.iiret = x.ret,
                         !.held = IF ~r.exists THEN @ + 1 ELSE @])
     /\ UNCHANGED <<vlock, qlock, storeVars, confVars, histVars, nops, last>>

\* lines 189-196
InsAllow(t) ==
  LET r == tk[t]
  IN /\ r.pc = "ins_allow"
     /\ vlock = NoTask
     /\ IF r.id \notin DOMAIN vertices
        THEN /\ Set(t, [r EXCEPT !.pc = "panicked"])
             /\ UNCHANGED vertices
        ELSE /\ vertices' = [vertices EXCEPT ![r.id] = allow_eviction(@)]
             /\ Set(t, [r EXCEPT !.held = @ - 1,
                                 !.k = 1,
                                 !.pc = IF r.iiret = None THEN "ret"
                                        ELSE IF r.msg[1].parents = <<>> THEN "ins_store"
                                        ELSE "ins_appr"])
     /\ UNCHANGED <<cache_queue, vlock, qlock, storeVars, confVars, histVars,
                    nops, last>>

\* lines 198-203: one parent per step
InsApprover(t) ==
  LET r == tk[t]
      parents == r.msg[1].parents
      e == <<parents[r.k], r.id>>
  IN /\ r.pc = "ins_appr"
     /\ \E ok \in HookOutcomes :
          /\ failed' = (failed \/ ~ok)
          /\ approvers' = IF ok THEN approvers \cup {e} ELSE approvers
     /\ nAppr' = [nAppr EXCEPT ![e] = @ + 1]
     /\ Set(t, [r EXCEPT !.k = @ + 1,
                         !.pc = IF r.k = Len(parents) THEN "ins_store" ELSE "ins_appr"])
     /\ UNCHANGED <<cacheVars, store, confVars, expected, nIns, offpass, nops, last>>

\* lines 206-212
InsStore(t) ==
  LET r == tk[t]
      pair == [msg |-> r.msg[1], meta |-> r.meta]
  IN /\ r.pc = "ins_store"
     /\ \E ok \in HookOutcomes :
          /\ failed' = (failed \/ ~ok)
          /\ store' = IF ok THEN MapPut(store, r.id, pair) ELSE store
     /\ nIns' = [nIns EXCEPT ![r.id] = @ + 1]
     /\ expected' = MapPut(expected, r.id, pair)
     /\ Set(t, [r EXCEPT !.pc = "ret", !.k = 0])
     /\ UNCHANGED <<cacheVars, approvers, confVars, nAppr, offpass, nops, last>>

-----------------------------------------------------------------------------
(* get_inner, get_with, get_metadata_maybe, get_vertex, lines 215-276 *)

\* get_inner, lines 216-223, then the caller's closure on the vertex
GetInner(t, allow, keep) ==
  LET r == tk[t]
  IN /\ vlock = NoTask /\ qlock = NoTask
     /\ IF r.id \in DOMAIN vertices
        THEN LET v == IF allow THEN allow_eviction(vertices[r.id]) ELSE vertices[r.id]
             IN /\ vertices' = [vertices EXCEPT ![r.id] = v]
                /\ cache_queue' = LruPut(cache_queue, queue_cap, r.id)
                /\ vlock' = IF keep THEN t ELSE NoTask
                /\ Set(t, [r EXCEPT !.pc = "ret", !.rbool = TRUE, !.rmsg = v.msg,
                                    !.rmeta = v.meta,
                                    !.held = IF allow THEN @ - 1 ELSE @])
        ELSE /\ Set(t, [r EXCEPT !.pc = "ret"])
             /\ UNCHANGED <<vertices, cache_queue, vlock>>
     /\ UNCHANGED <<qlock, storeVars, confVars, histVars, nops, last>>

\* a variant that releases a pin whether or not pull_message took one
GetWithAlwaysAllow(t) == tk[t].pc = "gw" /\ GetInner(t, TRUE, FALSE)

\* lines 230-235
GetWith(t) == tk[t].pc = "gw" /\ GetInner(t, tk[t].exists, FALSE)

\* line 263
GetMetadataMaybe(t) == tk[t].pc = "gmm" /\ GetInner(t, FALSE, FALSE)

\* lines 270-275: the caller receives the write guard
GetVertex(t) == tk[t].pc = "gv" /\ GetInner(t, tk[t].exists, TRUE)

-----------------------------------------------------------------------------
(* contains, lines 243-254 *)

ContainsInner(t) ==
  LET r == tk[t]
  IN /\ r.pc = "ct"
     /\ vlock = NoTask
     /\ IF HasMessage(r.id)
        THEN Set(t, [r EXCEPT !.pc = "ret", !.rbool = TRUE])
        ELSE Set(t, [r EXCEPT !.pc = "pm_check"])
     /\ UNCHANGED <<cacheVars, storeVars, confVars, histVars, nops, last>>

-----------------------------------------------------------------------------
(* update_metadata, lines 284-316 *)

\* lines 289-304
UpdateMetadata(t) ==
  LET r == tk[t]
  IN /\ r.pc = "um"
     /\ vlock = NoTask /\ qlock = NoTask
     /\ IF r.id \in DOMAIN vertices
        THEN LET v1 == IF r.exists THEN allow_eviction(vertices[r.id])
                       ELSE vertices[r.id]
                 v2 == IF v1.meta # None THEN [v1 EXCEPT !.meta = Some(r.meta)] ELSE v1
             IN /\ vertices' = [vertices EXCEPT ![r.id] = v2]
                /\ IF v2.msg # None
                   THEN /\ cache_queue' = LruPut(cache_queue, queue_cap, r.id)
                        /\ Set(t, [r EXCEPT !.pc = "um_hook",
                                     !.rbool = (v1.meta # None),
                                     !.held = IF r.exists THEN @ - 1 ELSE @,
                                     !.fetched = Some([msg |-> v2.msg[1],
                                                       meta |-> v2.meta[1]])])
                   ELSE /\ Set(t, [r EXCEPT !.pc = "ret",
                                     !.rbool = (v1.meta # None),
                                     !.held = IF r.exists THEN @ - 1 ELSE @])
                        /\ UNCHANGED cache_queue
        ELSE /\ Set(t, [r EXCEPT !.pc = "ret"])
             /\ UNCHANGED <<vertices, cache_queue>>
     /\ UNCHANGED <<vlock, qlock, storeVars, confVars, histVars, nops, last>>

\* lines 306-309: hooks.insert
UmHook(t) ==
  LET r == tk[t]
  IN /\ r.pc = "um_hook"
     /\ \E ok \in HookOutcomes :
          /\ failed' = (failed \/ ~ok)
          /\ store' = IF ok THEN MapPut(store, r.id, r.fetched[1]) ELSE store
     /\ expected' = MapPut(expected, r.id, r.fetched[1])
     /\ Set(t, [r EXCEPT !.pc = "ret", !.fetched = None])
     /\ UNCHANGED <<cacheVars, approvers, confVars, nIns, nAppr, offpass, nops, last>>

-----------------------------------------------------------------------------
(* children_inner, lines 329-389 *)

\* lines 343-360
ChRead(t) ==
  LET r == tk[t]
  IN /\ r.pc = "ch_read"
     /\ vlock = NoTask /\ qlock = NoTask
     /\ cache_queue' = LruPut(cache_queue, queue_cap, r.id)
     /\ IF r.id \in DOMAIN vertices /\ vertices[r.id].exhaustive
        THEN Set(t, [r EXCEPT !.pc = "ret", !.rlist = vertices[r.id].children])
        ELSE Set(t, [r EXCEPT !.pc = "ch_fetch"])
     /\ UNCHANGED <<vertices, vlock, qlock, storeVars, confVars, histVars, nops, last>>

\* lines 361-368: hooks.fetch_approvers
ChFetch(t) ==
  LET r == tk[t]
  IN /\ r.pc = "ch_fetch"
     /\ \E ok \in HookOutcomes :
          /\ failed' = (failed \/ ~ok)
          /\ Set(t, [r EXCEPT !.pc = "ch_merge", !.err = ~ok,
                              !.toins = IF ok THEN FetchApprovers(r.id) ELSE <<>>])
     /\ UNCHANGED <<cacheVars, store, approvers, confVars, histVars, nops, last>>

RECURSIVE AddChildren(_, _, _)
AddChildren(v, cs, i) ==
  IF i > Len(cs) THEN v ELSE AddChildren(add_child(v, cs[i]), cs, i + 1)

\* a variant that takes the fetched approvers for the children list
MergeApproversReplace(v, toins, err) == [set_exhaustive(v) EXCEPT !.children = toins]

\* lines 370-381, on the vertex of id
MergeApprovers(v, toins, err) == AddChildren(set_exhaustive(v), toins, 1)

\* lines 370-381
ChMerge(t) ==
  LET r == tk[t]
      vs1 == EntryOrEmpty(vertices, r.id)
      v == MergeApprovers(vs1[r.id], r.toins, r.err)
  IN /\ r.pc = "ch_merge"
     /\ vlock = NoTask
     /\ vertices' = [vs1 EXCEPT ![r.id] = v]
     /\ Set(t, [r EXCEPT !.pc = "ret", !.rlist = v.children])
     /\ offpass' = TRUE
     /\ UNCHANGED <<cache_queue, vlock, qlock, storeVars, confVars, expected,
                    nIns, nAppr, nops, last>>

-----------------------------------------------------------------------------
(* The operation returns to its caller *)

\* what the vertex of id holds, for the history
Stored(id) ==
  IF id \in DOMAIN vertices
  THEN Some([msg |-> vertices[id].msg, meta |-> vertices[id].meta])
  ELSE None

Return(t) ==
  LET r == tk[t]
  IN /\ r.pc = "ret"
     /\ Set(t, IdleTask)
     /\ vlock' = IF vlock = t THEN NoTask ELSE vlock
     /\ last' = IF mode = "seq" /\ r.op = "insert"
                THEN Some([id |-> r.id, msg |-> r.msg, meta |-> r.meta,
                           iiret |-> r.iiret, stored |-> Stored(r.id)])
                ELSE None
     /\ UNCHANGED <<vertices, cache_queue, qlock, storeVars, confVars, histVars, nops>>

-----------------------------------------------------------------------------
(* Specifications *)

Step(t) ==
  \/ StartInsert(t) \/ StartGet(t) \/ StartGetVertex(t) \/ StartGetMetadataMaybe(t)
  \/ StartContains(t) \/ StartUpdateMetadata(t) \/ StartGetChildren(t)
  \/ PmCheck(t) \/ PmTouch(t) \/ PmGet(t) \/ PmPut(t) \/ PmInsertInner(t)
  \/ EvLoad(t) \/ EvLen(t) \/ EvLoop(t)
  \/ InsInsertInner(t) \/ InsAllow(t) \/ InsApprover(t) \/ InsStore(t)
  \/ GetWith(t) \/ GetMetadataMaybe(t) \/ GetVertex(t)
  \/ ContainsInner(t) \/ UpdateMetadata(t) \/ UmHook(t)
  \/ ChRead(t) \/ ChFetch(t) \/ ChMerge(t)
  \/ Return(t)

Next == Resize \/ \E t \in Tasks : Step(t)

Spec == Init /\ [][Next]_vars

SeqSpec == SeqInit /\ [][Next]_vars

\* one task on a tangle built with with_capacity
CapSpec == CapInit /\ [][Next]_vars

\* a task that can take a step takes one: its code runs on
FairSpec == SeqInit /\ [][Next]_vars /\ \A t \in Tasks : WF_vars(Step(t))

-----------------------------------------------------------------------------
(* One eviction pass over an index of n vertices, for each n and max_len.   *)
(* The entries of 2..n were created by get_children; resize set max_len;    *)
(* contains(1) found the message of 1 in the store and pull_message(1,      *)
(* false) has installed it through insert_inner, which is about to call     *)
(* perform_eviction.                                                        *)

EvictInit ==
  \E n \in 1..MaxEvictIds, ml \in 0..MaxEvictLen :
    LET m == [msg |-> Message(1, 1), meta |-> 1]
    IN /\ vertices = [i \in 1..n |->
                       IF i = 1 THEN insert_message_and_metadata(VertexEmpty, m.msg, m.meta)
                       ELSE set_exhaustive(VertexEmpty)]
       /\ cache_queue = [i \in 1..n |-> IF i = n THEN 1 ELSE i + 1]
       /\ queue_cap = 0
       /\ max_len = ml
       /\ vlock = NoTask
       /\ qlock = NoTask
       /\ store = MapPut(EmptyMap, 1, m)
       /\ approvers = {}
       /\ tk = [t \in Tasks |->
                 IF t = Main
                 THEN [IdleTask EXCEPT !.pc = "ev_load", !.op = "contains", !.id = 1,
                                       !.phase = "pull", !.pulled = TRUE]
                 ELSE IdleTask]
       /\ nops = [t \in Tasks |-> IF t = Main THEN 1 ELSE 0]
       /\ nres = 1
       /\ mode = "evict"
       /\ failed = FALSE
       /\ expected = EmptyMap
       /\ nIns = [i \in Ids |-> 0]
       /\ nAppr = NoEdgeCount
       /\ last = None
       /\ offpass = TRUE

EvictNext == EvLoad(Main) \/ EvLen(Main) \/ EvLoop(Main) \/ Return(Main)

EvictSpec == EvictInit /\ [][EvictNext]_vars

-----------------------------------------------------------------------------
(* The lock protocol of the facade operations.  A code path is the sequence *)
(* of its suspension points: "vr" / "vw" await the vertices lock for reading *)
(* / writing and "-v" drops the guard, "q" awaits the cache_queue mutex and *)
(* "-q" drops its guard, "hook" awaits a hook call.  An operation is the set *)
(* of the paths its branches can take.                                      *)

Cat(A, B) == {a \o b : a \in A, b \in B}

\* a variant that takes the cache_queue mutex before the vertices lock
PerformEvictionLocksQueueFirst ==
  {<<"vr", "-v">>, <<"vr", "-v", "q", "vw", "-v", "-q">>}

\* lines 443-465: len read, then the loop under both locks
PerformEvictionLocks ==
  {<<"vr", "-v">>, <<"vr", "-v", "vw", "q", "-q", "-v">>}

\* lines 142-178: message installed already, or installed now
InsertInnerLocks ==
  Cat({<<"vw", "-v">>, <<"vw", "q", "-q", "-v">>}, PerformEvictionLocks)

\* lines 243-249
ContainsInnerLocks == {<<"vr", "-v">>}

\* lines 411-441: contains_now, then the touch, or hooks.get and nothing
\* more, or hooks.get, the put and insert_inner
PullMessageLocks(pin) ==
  Cat(IF pin THEN {<<"vw", "-v">>} ELSE ContainsInnerLocks,
      {<<"q", "-q">>, <<"hook">>} \cup Cat({<<"hook", "q", "-q">>}, InsertInnerLocks))

\* lines 182-213: the approver writes and the message write are hook calls
InsertLocks ==
  Cat(Cat(Cat(PullMessageLocks(TRUE), InsertInnerLocks), {<<"vw", "-v">>}),
      {<<>>, <<"hook", "hook">>})

\* lines 215-224: the guard is dropped at once when the vertex is absent;
\* kept past the put and dropped by the caller (after) when it is resident
GetInnerLocks(after) == {<<"vw", "-v">>, <<"vw", "q", "-q">> \o after}

\* lines 227-236
GetWithLocks == Cat(PullMessageLocks(TRUE), GetInnerLocks(<<"-v">>))

\* lines 262-264
GetMetadataMaybeLocks == GetInnerLocks(<<"-v">>)

\* lines 267-276: the caller receives the guard and drops it
GetVertexLocks == Cat(PullMessageLocks(TRUE), GetInnerLocks(<<"-v">>))

\* lines 252-254
ContainsLocks == Cat(ContainsInnerLocks, {<<>>} \cup PullMessageLocks(FALSE))

\* a variant that calls hooks.insert before dropping the vertices guard
UpdateMetadataLocksHookInside ==
  Cat(PullMessageLocks(TRUE), {<<"vw", "-v">>, <<"vw", "q", "-q", "hook", "-v">>})

\* lines 284-316
UpdateMetadataLocks ==
  Cat(PullMessageLocks(TRUE), {<<"vw", "-v">>, <<"vw", "q", "-q", "-v", "hook">>})

\* lines 329-389
ChildrenInnerLocks ==
  Cat({<<"vr", "q", "-q", "-v">>}, {<<>>, <<"hook", "vw", "-v">>})

Programs ==
  InsertLocks \cup GetWithLocks \cup GetMetadataMaybeLocks \cup GetVertexLocks
  \cup ContainsLocks \cup UpdateMetadataLocks \cup ChildrenInnerLocks

LockInit == InitCommon /\ mode = "lock"

Running(t) == tk[t].pc = "lk" /\ tk[t].prog # <<>>

\* the suspension point the task is at
At(t, e) == Running(t) /\ Head(tk[t].prog) = e

HoldsVertices(t) == vlock = t \/ tk[t].rd

Holds(t) == HoldsVertices(t) \/ qlock = t

Advance(t, r) == Set(t, [r EXCEPT !.prog = Tail(tk[t].prog)])

LkStart(t) ==
  /\ tk[t].pc = "idle"
  /\ nops[t] < MaxLockOps
  /\ \E p \in Programs : Set(t, [IdleTask EXCEPT !.pc = "lk", !.prog = p])
  /\ nops' = [nops EXCEPT ![t] = @ + 1]
  /\ UNCHANGED <<cacheVars, storeVars, confVars, histVars, last>>

\* RwLock::read / RwLock::write / Mutex::lock return
LkAcquire(t) ==
  /\ \/ /\ At(t, "vr")
        /\ vlock = NoTask
        /\ Advance(t, [tk[t] EXCEPT !.rd = TRUE])
        /\ UNCHANGED <<vlock, qlock>>
     \/ /\ At(t, "vw")
        /\ vlock = NoTask /\ \A u \in Tasks : ~tk[u].rd
        /\ vlock' = t
        /\ Advance(t, tk[t])
        /\ UNCHANGED qlock
     \/ /\ At(t, "q")
        /\ qlock = NoTask
        /\ qlock' = t
        /\ Advance(t, tk[t])
        /\ UNCHANGED vlock
  /\ UNCHANGED <<vertices, cache_queue, storeVars, confVars, histVars, nops, last>>

\* a guard is dropped
LkRelease(t) ==
  /\ \/ /\ At(t, "-v")
        /\ vlock' = IF vlock = t THEN NoTask ELSE vlock
        /\ Advance(t, [tk[t] EXCEPT !.rd = FALSE])
        /\ UNCHANGED qlock
     \/ /\ At(t, "-q")
        /\ qlock' = IF qlock = t THEN NoTask ELSE qlock
        /\ Advance(t, tk[t])
        /\ UNCHANGED vlock
  /\ UNCHANGED <<vertices, cache_queue, storeVars, confVars, histVars, nops, last>>

\* a hook call returns
LkHook(t) ==
  /\ At(t, "hook")
  /\ Advance(t, tk[t])
  /\ UNCHANGED <<cacheVars, storeVars, confVars, histVars, nops, last>>

LkReturn(t) ==
  /\ tk[t].pc = "lk" /\ tk[t].prog = <<>>
  /\ Set(t, IdleTask)
  /\ UNCHANGED <<cacheVars, storeVars, confVars, histVars, nops, last>>

LockStep(t) == LkStart(t) \/ LkAcquire(t) \/ LkRelease(t) \/ LkHook(t) \/ LkReturn(t)

LockNext == \E t \in Tasks : LockStep(t)

LockSpec == LockInit /\ [][LockNext]_vars

\* The task waits and cannot be resumed in this state.  The vertices lock is
\* fair: a reader also waits while a writer waits.
Blocked(t) ==
  \/ At(t, "vr") /\ (vlock # NoTask \/ \E u \in Tasks \ {t} : At(u, "vw"))
  \/ At(t, "vw") /\ (vlock # NoTask \/ \E u \in Tasks : tk[u].rd)
  \/ At(t, "q") /\ qlock # NoTask

-----------------------------------------------------------------------------
(* Properties *)

Quiescent == \A t \in Tasks : tk[t].pc \in {"idle", "ret"}

Resident == DOMAIN vertices

AllPinned == \A id \in Resident : ~can_evict(vertices[id])

\* C1: an eviction pass keeps every pinned vertex.  In each step of a pass
\* (from taking the two locks to leaving the loop), every vertex that had
\* pin_count > 0 when the pass took the locks is resident afterwards with the
\* message, metadata, children and pin_count it had then.
PinnedSurviveEviction ==
  [][\A t \in Tasks :
       (tk[t].pc = "ev_loop" /\ tk'[t] # tk[t]) =>
         LET s == IF vlock = t THEN tk[t].snap ELSE Pinned(vertices)
         IN \A id \in DOMAIN s : id \in DOMAIN vertices' /\ vertices'[id] = s[id]]_vars

\* C1 witness: a pass that holds the locks, started with a pinned vertex and
\* has evicted down to the watermark.
PinnedSurviveEvictionWitness ==
  \E t \in Tasks :
    /\ tk[t].pc = "ev_loop" /\ vlock = t
    /\ DOMAIN tk[t].snap # {}
    /\ Cardinality(Resident) <= Threshold(tk[t].ml)

EvictionTerminates ==
  \A t \in Tasks : (tk[t].pc = "ev_loop") ~> (tk[t].pc # "ev_loop")

\* C4: an insert called next after an insert of the same identifier has
\* returned finds the vertex resident and leaves it holding the message and
\* metadata it held when the first returned (the first call's m and meta when
\* that call returned a reference), and returns no reference.
SecondInsertAbsent ==
  \A t \in Tasks :
    (tk[t].op = "insert" /\ tk[t].prev # None) =>
      LET first == tk[t].prev[1]
      IN /\ Stored(tk[t].id) = first.stored
         /\ first.iiret # None =>
              first.stored = Some([msg |-> first.msg, meta |-> Some(first.meta)])
         /\ tk[t].pc \in {"ins_allow", "ret"} => tk[t].iiret = None

\* C4 witness: the second insert, called with another message than the first,
\* has returned.
SecondInsertAbsentWitness ==
  \E t \in Tasks :
    /\ tk[t].op = "insert" /\ tk[t].pc = "ret" /\ tk[t].prev # None
    /\ tk[t].prev[1].iiret # None
    /\ tk[t].prev[1].msg # tk[t].msg

\* C5: over a store that persists faithfully, the hooks receive insert(id, ..)
\* from insert at most once per identifier and insert_approver(P, id) at most
\* once per edge.
WriteThroughOnce ==
  ~failed => /\ \A id \in Ids : nIns[id] <= 1
             /\ \A e \in Ids \X Ids : nAppr[e] <= 1

\* C6: over a store that persists faithfully, a get(id) / get_metadata(id)
\* that follows a returned insert(id, m, meta) returns m and the metadata the
\* returned calls left (meta, or what update_metadata set since), also when
\* the vertex was evicted in between and is materialized again from the hooks.
RoundTrip ==
  \A t \in Tasks :
    (tk[t].pc = "ret" /\ tk[t].op = "get" /\ ~failed /\ tk[t].id \in DOMAIN expected) =>
      /\ tk[t].rmsg = Some(expected[tk[t].id].msg)
      /\ tk[t].rmeta = Some(expected[tk[t].id].meta)

\* C6 witness: such a get has returned after pull_message materialized the
\* evicted vertex from the hooks.
RoundTripWitness ==
  \E t \in Tasks :
    /\ tk[t].pc = "ret" /\ tk[t].op = "get" /\ ~failed
    /\ tk[t].id \in DOMAIN expected
    /\ tk[t].pulled

\* C7: whenever no operation is in progress, the children of a resident
\* vertex marked exhaustive contain every approver the store records for it.
ExhaustiveSound ==
  (Quiescent /\ ~failed) =>
    \A id \in Resident :
      vertices[id].exhaustive =>
        \A c \in Ids : <<id, c>> \in approvers => c \in Range(vertices[id].children)

\* C8: a get_children / num_children whose fetch_approvers returned an error
\* leaves the vertex not exhaustive and yields an empty list.
FetchErrorNotExhaustive ==
  \A t \in Tasks :
    (tk[t].pc = "ret" /\ tk[t].op = "get_children" /\ tk[t].err) =>
      /\ tk[t].id \in Resident => ~vertices[tk[t].id].exhaustive
      /\ tk[t].rlist = <<>>

ParentsIn(vs, v) ==
  IF v \in DOMAIN vs /\ vs[v].msg # None THEN Range(vs[v].msg[1].parents) ELSE {}

HasEdge(vs, p, v) == p \in DOMAIN vs /\ v \in Range(vs[p].children)

\* C9 as stated: whenever no operation is in progress, each parent of a
\* resident vertex's message has an entry that lists the vertex as a child.
EdgeInvariant ==
  Quiescent => \A v \in Resident : \A p \in ParentsIn(vertices, v) : HasEdge(vertices, p, v)

\* C9 amended: the step that installs a message in the vertex of V leaves each
\* parent with an entry listing V, and an entry listing V keeps listing it in
\* every later step but the step of an eviction pass that removes the
\* unpinned parent.
EdgesUntilEviction ==
  [][\A v \in Ids : \A p \in ParentsIn(vertices', v) :
       (ParentsIn(vertices, v) = {} \/ HasEdge(vertices, p, v)) =>
         \/ HasEdge(vertices', p, v)
         \/ /\ p \in DOMAIN vertices /\ p \notin DOMAIN vertices'
            /\ can_evict(vertices[p])
            /\ \E t \in Tasks : tk[t].pc = "ev_loop" /\ vlock' = t]_vars

\* C9 witness: insert_inner has just installed a message with parents that
\* pull_message fetched from the hooks (the vertex had been evicted), and
\* each parent lists it.
EdgesUntilEvictionWitness ==
  \E t \in Tasks :
    /\ tk[t].pulled /\ tk[t].pc = "ev_load"
    /\ ParentsIn(vertices, tk[t].id) # {}
    /\ \A p \in ParentsIn(vertices, tk[t].id) : HasEdge(vertices, p, tk[t].id)

\* the pins the running operations hold on the vertex of id
HeldOn(id) ==
  (IF tk[Main].id = id THEN tk[Main].held ELSE 0)
  + (IF tk[Side].id = id THEN tk[Side].held ELSE 0)

\* C10: pins are paired.  pin_count is never negative and equals the number
\* of pins the running operations took and have not released; an operation
\* releases only a pin it took (it holds 0 or 1), holds none when it has
\* returned, and contains / get_children / get_metadata_maybe hold none.
PinsPaired ==
  /\ \A id \in Resident : vertices[id].pins >= 0 /\ vertices[id].pins = HeldOn(id)
  /\ \A t \in Tasks :
       /\ tk[t].held \in {0, 1}
       /\ tk[t].held = 1 => tk[t].id \in Resident
       /\ tk[t].pc \in {"idle", "ret", "ins_appr", "ins_store", "um_hook"} => tk[t].held = 0
       /\ tk[t].op \in {"contains", "get_children", "get_metadata_maybe"} => tk[t].held = 0

\* C10 witness: both tasks hold a pin on the same vertex.
PinsPairedWitness ==
  \E id \in Resident : vertices[id].pins = 2

\* C11: for a task running alone, an insert(id, m, meta) that has passed its
\* eviction pass leaves the vertex of id resident with a message (m when the
\* call installed it), up to its return; a get(id) called next returns the
\* message the vertex held when insert returned, and a contains(id) called
\* next returns true.
InsertVisible ==
  \A t \in Tasks :
    /\ (tk[t].op = "insert" /\ tk[t].pc \in {"ins_appr", "ins_store", "ret"}) =>
         /\ HasMessage(tk[t].id)
         /\ tk[t].iiret # None => vertices[tk[t].id].msg = tk[t].msg
    /\ (tk[t].op \in {"get", "contains"} /\ tk[t].pc = "ret" /\ tk[t].prev # None) =>
         LET first == tk[t].prev[1]
         IN /\ first.stored # None /\ first.stored[1].msg # None
            /\ tk[t].op = "get" => tk[t].rmsg = first.stored[1].msg
            /\ tk[t].op = "contains" => tk[t].rbool

\* C11 witness: a get called next after an insert that ran an eviction pass
\* which evicted a stored message has returned, with hooks that have failed.
InsertVisibleWitness ==
  \E t \in Tasks :
    /\ tk[t].op = "get" /\ tk[t].pc = "ret" /\ tk[t].prev # None
    /\ failed
    /\ \E id \in DOMAIN expected : id \notin Resident

\* C12: children_exhaustive is monotonic.  In every step, a vertex that is in
\* the index before and after the step and was exhaustive before it is
\* exhaustive after it.
ExhaustiveMonotonic ==
  [][\A id \in (DOMAIN vertices) \cap (DOMAIN vertices') :
       vertices[id].exhaustive => vertices'[id].exhaustive]_vars

\* C12 witness: an eviction pass has popped a pinned exhaustive vertex that
\* holds a message and put it back.
ExhaustiveMonotonicWitness ==
  \E t \in Tasks :
    /\ tk[t].pc = "ev_loop" /\ vlock = t
    /\ cache_queue # <<>>
    /\ LET id == cache_queue[Len(cache_queue)]
       IN /\ id \in DOMAIN tk[t].snap
          /\ id \in Resident
          /\ vertices[id].exhaustive /\ vertices[id].msg # None

\* C13: a task that awaits a hook call holds neither the vertices lock nor
\* the cache_queue mutex.
HooksWithoutLocks ==
  \A t \in Tasks : At(t, "hook") => ~Holds(t)

\* C13 witness: a task awaits a hook call while the other task holds both
\* locks.
HooksWithoutLocksWitness ==
  \E t \in Tasks, u \in Tasks :
    t # u /\ At(t, "hook") /\ vlock = u /\ qlock = u

\* C14: a task that awaits the vertices lock holds neither lock (so the
\* order is vertices, then cache_queue, and the vertices lock is never taken
\* twice), and whenever operations are running one of them can go on.
LockOrderNoDeadlock ==
  /\ \A t \in Tasks : (At(t, "vr") \/ At(t, "vw")) => ~Holds(t)
  /\ (\E t \in Tasks : Running(t)) => \E t \in Tasks : Running(t) /\ ~Blocked(t)

\* C14 witness: a task that holds the vertices lock waits for the
\* cache_queue mutex, which the other task holds.
LockOrderNoDeadlockWitness ==
  \E t \in Tasks, u \in Tasks :
    t # u /\ HoldsVertices(t) /\ At(t, "q") /\ qlock = u

NoDuplicates(s) == Len(s) = Cardinality(Range(s))

\* C15: the merge of children_inner is additive and free of duplicates.  The
\* step that merges the fetched approvers F into a vertex whose children are
\* C (none when the vertex is created by the step) leaves the vertex with
\* exactly the identifiers of C and F and returns that list; and no step
\* leaves a children list in which an identifier occurs twice.
MergeAdditive ==
  [][/\ \A t \in Tasks :
          (tk[t].pc = "ch_merge" /\ tk'[t].pc = "ret") =>
            LET id == tk[t].id
                C == IF id \in DOMAIN vertices THEN vertices[id].children ELSE <<>>
                R == vertices'[id].children
            IN /\ Range(R) = Range(C) \cup Range(tk[t].toins)
               /\ tk'[t].rlist = R
     /\ \A id \in DOMAIN vertices' : NoDuplicates(vertices'[id].children)]_vars

\* C15 witness: a get_children has returned a merged list that holds a child
\* found in the fetched approvers and a child that was not among them.
MergeAdditiveWitness ==
  \E t \in Tasks :
    /\ tk[t].op = "get_children" /\ tk[t].pc = "ret" /\ ~tk[t].err
    /\ Range(tk[t].rlist) \cap Range(tk[t].toins) # {}
    /\ Range(tk[t].rlist) \ Range(tk[t].toins) # {}

\* the identifier is the most recently used entry of the eviction queue
IsMru(id) == cache_queue # <<>> /\ cache_queue[Len(cache_queue)] = id

\* C16 as stated: when a facade operation on id returns and the vertex of id
\* is resident, id is the most recently used entry of the eviction queue.
PromotedOnReturn ==
  \A t \in Tasks :
    (tk[t].pc = "ret" /\ tk[t].id \in Resident) => IsMru(tk[t].id)

\* C16 amended: the same for insert, get / get_metadata, get_vertex,
\* get_metadata_maybe and get_children / num_children; for update_metadata
\* when the vertex holds a message; for contains only when it materialized
\* the message from the hooks (not when contains_inner finds it resident).
PromotedUnlessContains ==
  \A t \in Tasks :
    tk[t].pc = "ret" =>
      LET id == tk[t].id
          promotes ==
            CASE tk[t].op = "update_metadata" -> HasMessage(id)
              [] tk[t].op = "contains" -> tk[t].pulled /\ id \in Resident
              [] OTHER -> id \in Resident
      IN promotes => IsMru(id)

\* C16 witness: a get has returned with its vertex resident and promoted
\* over another entry of the queue.
PromotedUnlessContainsWitness ==
  \E t \in Tasks :
    /\ tk[t].pc = "ret" /\ tk[t].op = "get" /\ tk[t].id \in Resident
    /\ Len(cache_queue) >= 2 /\ IsMru(tk[t].id)
    /\ cache_queue[1] \in Resident

\* a turn of the loop of perform_eviction leaves the loop
LeavesLoop(t) == tk[t].pc = "ev_loop" /\ tk'[t].pc # "ev_loop"

\* C17 as stated: a pass leaves its loop only with the index below
\* 0.9 * max_len, or with the queue empty.
WatermarkBelow ==
  [][\A t \in Tasks :
       LeavesLoop(t) =>
         \/ 10 * Cardinality(DOMAIN vertices) < 9 * tk[t].ml
         \/ cache_queue = <<>>]_vars

\* C17 amended: a pass removes nothing when the size it reads is at most
\* max_len.  Otherwise each turn of its loop pops the least recently used
\* entry and removes that vertex if it is resident and not pinned, as long
\* as the index holds more than 0.9 * max_len entries and the queue is not
\* empty; the pass ends as soon as the index holds at most 0.9 * max_len
\* entries (exactly 0.9 * max_len when that is a whole number), or the queue
\* is empty.
WatermarkAtMost ==
  [][\A t \in Tasks :
       LET len == Cardinality(DOMAIN vertices)
           ml == tk[t].ml
       IN /\ (tk[t].pc = "ev_len" /\ tk'[t] # tk[t] /\ len <= ml) =>
               (tk'[t].pc # "ev_loop" /\ vertices' = vertices)
          /\ LeavesLoop(t) =>
               (vertices' = vertices /\ (10 * len <= 9 * ml \/ cache_queue = <<>>))
          /\ (tk[t].pc = "ev_loop" /\ tk'[t] # tk[t] /\ ~LeavesLoop(t)) =>
               /\ 10 * len > 9 * ml /\ cache_queue # <<>>
               /\ LET victim == Head(cache_queue)
                  IN /\ cache_queue' \in {Tail(cache_queue), Append(Tail(cache_queue), victim)}
                     /\ vertices' =
                          IF victim \in DOMAIN vertices /\ can_evict(vertices[victim])
                          THEN MapRemove(vertices, victim) ELSE vertices]_vars

\* C17 witness: a pass has ended with an index of exactly 0.9 * max_len
\* entries and entries left in the queue.
WatermarkAtMostWitness ==
  \E t \in Tasks :
    /\ tk[t].pc = "ret" /\ tk[t].pulled
    /\ max_len > 0 /\ 10 * Cardinality(Resident) = 9 * max_len
    /\ cache_queue # <<>>

\* C18: whenever no operation is in progress, every identifier in the index
\* is also in the eviction queue.
ResidentInQueue ==
  Quiescent => \A id \in Resident : id \in Range(cache_queue)

\* C19: over a store that persists faithfully, when the update_metadata
\* calls of both tasks have finished and nothing else is in progress, the
\* metadata the store holds for an identifier is the metadata of its resident
\* vertex.
MetadataCoherent ==
  (~failed /\ \A t \in Tasks : tk[t].pc = "ret" /\ tk[t].op = "update_metadata") =>
    \A id \in Resident \cap DOMAIN store :
      vertices[id].meta # None => store[id].meta = vertices[id].meta[1]

\* C20: the lookup in insert that releases the pin always finds the vertex.
\* Whenever insert_inner has returned to insert and insert has not yet
\* released its pin, the vertex of message_id is resident with
\* pin_count >= 1, and no insert has failed its expect.
InsertFindsVertex ==
  \A t \in Tasks :
    /\ tk[t].pc # "panicked"
    /\ tk[t].pc = "ins_allow" =>
         /\ tk[t].id \in Resident
         /\ vertices[tk[t].id].pins >= 1

\* C20 witness: an insert is about to release its pin after an eviction pass
\* that removed every other vertex, a stored one among them.
InsertFindsVertexWitness ==
  \E t \in Tasks :
    /\ tk[t].pc = "ins_allow"
    /\ Resident = {tk[t].id}
    /\ DOMAIN store \ Resident # {}

====
